---- MODULE Spec2Model ----
(***************************************************************************)
(* Limit order book of benjischwartz/Exchange.                             *)
(*                                                                         *)
(* The engine modelled is class Exchange of src/unnamed/part_000, which is *)
(* src/Exchange.cpp plus the per-price quantity maps and the               *)
(* BestPriceChanged emission; on the books, the order index, the id        *)
(* counters, the return values and the OrderTraded events the two files    *)
(* are line for line the same code.                                        *)
(*                                                                         *)
(* One action is one call of AddOrder or RemoveOrder, run to completion    *)
(* (the engine is single threaded).                                        *)
(*                                                                         *)
(* Integer widths are scaled down: PriceT (uint64_t) and std::int64_t are  *)
(* PriceBits wide, std::uint32_t is QuantityBits wide.  Conversions and    *)
(* unsigned arithmetic wrap at those widths exactly as the C++ does at 64  *)
(* and 32 bits.                                                            *)
(***************************************************************************)
EXTENDS Integers, Sequences, FiniteSets, TLC

\* ---------------------------------------------------------------- bounds
Instruments == {"X", "Y"}
MaxPrice == 2
MaxQuantity == 2
MaxOrders == 2
MaxStreak == 3
PriceBits == 3
QuantityBits == 3

PriceMod == 2 ^ PriceBits
QuantityMod == 2 ^ QuantityBits
\* <<price, quantity>> of the AddOrder calls: every valid pair up to the
\* bounds, a negative price, price 0 and quantity 0
Orders == ((1 .. MaxPrice) \X (1 .. MaxQuantity))
              \cup {<<0 - 1, 1>>, <<0, 1>>, <<1, 0>>}
\* the ids the counters can have allocated, and one they never allocate
OrderIdInputs == 0 .. MaxOrders
\* what begin()->first of an empty std::map may read (undefined behaviour)
EmptyBeginValues == {0, PriceMod - 1}

\* ----------------------------------------------------------------- types
Side == {"BUY", "SELL"}
PriceT == 0 .. (PriceMod - 1)

\* std::int64_t -> PriceT (uint64_t): value modulo 2^width
ToPriceT(price) == price % PriceMod
\* PriceT -> std::int64_t, as in the arguments of the two callbacks
ToInt64(p) == IF p >= PriceMod \div 2 THEN p - PriceMod ELSE p
\* std::uint32_t arithmetic
SubU32(a, b) == (a - b) % QuantityMod
AddU32(a, b) == (a + b) % QuantityMod

\* --------------------------------------------------- std::map operations
EmptyMap == [k \in {} |-> 0]
\* m.count(k)
Count(m, k) == k \in DOMAIN m
\* the value m[k] reads: operator[] value-initialises a missing entry
At(m, k, dflt) == IF k \in DOMAIN m THEN m[k] ELSE dflt
\* m[k] = v
Put(m, k, v) == [x \in (DOMAIN m) \cup {k} |-> IF x = k THEN v ELSE m[x]]
\* m.erase(k)
Erase(m, k) == [x \in (DOMAIN m) \ {k} |-> m[x]]

\* std::unordered_map<PriceT, uint32_t>: the code reaches its entries through
\* operator[] and erase only, so a missing entry and an entry of 0 are the
\* same to it; the map is held as the value operator[] reads at each price
NoQuantities == [p \in PriceT |-> 0]

Max(S) == CHOOSE x \in S : \A y \in S : y <= x
Min(S) == CHOOSE x \in S : \A y \in S : x <= y
\* first key in iteration order: std::greater for bids, std::less for asks
FirstKey(keys, bookSide) == IF bookSide = "BUY" THEN Max(keys) ELSE Min(keys)
Opposite(side) == IF side = "BUY" THEN "SELL" ELSE "BUY"

\* faulty priceMatch: std::less / std::greater, an order does not match a
\* level at its own limit price
priceMatchStrict(side, levelPrice, price) ==
    IF side = "BUY" THEN levelPrice < ToPriceT(price)
                    ELSE levelPrice > ToPriceT(price)

\* std::less_equal<PriceT> for a BUY, std::greater_equal<PriceT> for a SELL;
\* the int64 limit price is converted to PriceT by the call
priceMatch(side, levelPrice, price) ==
    IF side = "BUY" THEN levelPrice <= ToPriceT(price)
                    ELSE levelPrice >= ToPriceT(price)

VARIABLES
    m_bidMap, m_askMap,                  \* instrument -> price -> deque<Order>
    m_bidPriceMap, m_askPriceMap,        \* orderId -> price
    m_bidQuantityMap, m_askQuantityMap,  \* price -> total quantity
    m_bidOrderCount, m_askOrderCount,    \* id counters
    last,                                \* the last call: arguments, result, callbacks
    streak,                              \* results of the run of identical RemoveOrder calls ending in last
    issued,                              \* per side: orderId -> what AddOrder returned for it, and its quantity when it came to rest
    returned,                            \* per side: the values successful AddOrder calls have returned
    running                              \* per instrument: the AddOrder call a thread is inside of, statement by statement

vars == <<m_bidMap, m_askMap, m_bidPriceMap, m_askPriceMap,
          m_bidQuantityMap, m_askQuantityMap, m_bidOrderCount,
          m_askOrderCount, last, streak, issued, returned, running>>

NoCall == [op |-> "none", instrument |-> "X", side |-> "BUY", price |-> 0,
           quantity |-> 0, orderId |-> 0, ok |-> TRUE, value |-> 0,
           error |-> "", removed |-> FALSE, wasResting |-> FALSE, trades |-> <<>>,
           bpc |-> <<>>, emptyRead |-> FALSE]

NoStreak == [resting |-> FALSE, results |-> <<>>]

\* no AddOrder call is running on the instrument
Idle == [pc |-> "idle", side |-> "BUY", price |-> 0, quantity |-> 0, id |-> 0]

Init ==
    /\ m_bidMap = EmptyMap
    /\ m_askMap = EmptyMap
    /\ m_bidPriceMap = EmptyMap
    /\ m_askPriceMap = EmptyMap
    /\ m_bidQuantityMap = NoQuantities
    /\ m_askQuantityMap = NoQuantities
    /\ m_bidOrderCount = 0
    /\ m_askOrderCount = 0
    /\ last = NoCall
    /\ streak = NoStreak
    /\ issued = [s \in Side |-> EmptyMap]
    /\ returned = [s \in Side |-> {}]
    /\ running = [i \in Instruments |-> Idle]

\* ------------------------------------------------------------- AddOrder
\* faulty inner loop: consumes the orders of a level from the back
RECURSIVE ConsumeLevelFromBack(_, _, _)
ConsumeLevelFromBack(orders, quantity, levelPrice) ==
    IF orders = <<>> \/ quantity = 0
    THEN [orders |-> orders, quantity |-> quantity, trades |-> <<>>,
          traded |-> <<>>]
    ELSE LET o == orders[Len(orders)]
             front == SubSeq(orders, 1, Len(orders) - 1)
         IN
         IF o.quantity <= quantity
         THEN LET r == ConsumeLevelFromBack(front, quantity - o.quantity,
                                            levelPrice)
              IN [r EXCEPT
                    !.trades = <<[orderId |-> o.orderId,
                                  price |-> ToInt64(levelPrice),
                                  quantity |-> o.quantity]>> \o @,
                    !.traded = <<o.quantity>> \o @]
         ELSE [orders |-> front \o <<[o EXCEPT !.quantity = @ - quantity]>>,
               quantity |-> 0,
               trades |-> <<[orderId |-> o.orderId,
                             price |-> ToInt64(levelPrice),
                             quantity |-> quantity]>>,
               traded |-> <<quantity>>]

\* faulty inner loop: a partial trade reports the whole quantity of the
\* resting order
RECURSIVE ConsumeLevelReportsWhole(_, _, _)
ConsumeLevelReportsWhole(orders, quantity, levelPrice) ==
    IF orders = <<>> \/ quantity = 0
    THEN [orders |-> orders, quantity |-> quantity, trades |-> <<>>,
          traded |-> <<>>]
    ELSE LET o == Head(orders) IN
         IF o.quantity <= quantity
         THEN LET r == ConsumeLevelReportsWhole(Tail(orders),
                                                quantity - o.quantity,
                                                levelPrice)
              IN [r EXCEPT
                    !.trades = <<[orderId |-> o.orderId,
                                  price |-> ToInt64(levelPrice),
                                  quantity |-> o.quantity]>> \o @,
                    !.traded = <<o.quantity>> \o @]
         ELSE [orders |-> <<[o EXCEPT !.quantity = @ - quantity]>>
                              \o Tail(orders),
               quantity |-> 0,
               trades |-> <<[orderId |-> o.orderId,
                             price |-> ToInt64(levelPrice),
                             quantity |-> o.quantity]>>,
               traded |-> <<quantity>>]

\* inner while loop: consume the orders of one level from the head
RECURSIVE ConsumeLevel(_, _, _)
ConsumeLevel(orders, quantity, levelPrice) ==
    IF orders = <<>> \/ quantity = 0
    THEN [orders |-> orders, quantity |-> quantity, trades |-> <<>>,
          traded |-> <<>>]
    ELSE LET o == Head(orders) IN
         IF o.quantity <= quantity
         THEN \* full trade
              LET r == ConsumeLevel(Tail(orders), quantity - o.quantity,
                                    levelPrice)
              IN [r EXCEPT
                    !.trades = <<[orderId |-> o.orderId,
                                  price |-> ToInt64(levelPrice),
                                  quantity |-> o.quantity]>> \o @,
                    !.traded = <<o.quantity>> \o @]
         ELSE \* partial trade
              [orders |-> <<[o EXCEPT !.quantity = @ - quantity]>>
                              \o Tail(orders),
               quantity |-> 0,
               trades |-> <<[orderId |-> o.orderId,
                             price |-> ToInt64(levelPrice),
                             quantity |-> quantity]>>,
               traded |-> <<quantity>>]

\* oppositeQuantityMap[price] -= q, once per trade of the level
RECURSIVE SubtractAll(_, _, _)
SubtractAll(quantityMap, levelPrice, traded) ==
    IF traded = <<>> THEN quantityMap
    ELSE SubtractAll([quantityMap EXCEPT ![levelPrice] = SubU32(@, Head(traded))],
                     levelPrice, Tail(traded))

\* outer while loop over the opposite side's levels, best price first.
\* WalkLevels is the loop from the iterator's position on: ahead is the set
\* of level prices it has not passed yet.  VisitLevel is one iteration, at
\* the level of price p; AfterLevel is the end of that iteration, c being
\* the result of its inner loop.
RECURSIVE WalkLevels(_, _, _, _, _, _)

\* the loop has ended: nothing more is traded
WalkEnd(levels, quantityMap, quantity) ==
    [levels |-> levels, quantityMap |-> quantityMap, quantity |-> quantity,
     trades |-> <<>>, best_price_changed |-> FALSE]

\* the trades of a level come before those of the levels after it; an
\* emptied level sets best_price_changed
WithLevel(c, rest) ==
    [rest EXCEPT !.trades = c.trades \o @,
                 !.best_price_changed = (c.orders = <<>>) \/ @]

\* faulty end of an iteration: the order trades with the first level only,
\* and what it has left after that level is dropped
AfterLevelNoSweep(levels, quantityMap, ahead, price, side, p, c) ==
    WithLevel(c,
        IF c.orders = <<>>
        THEN WalkEnd(Erase(levels, p),
                     [SubtractAll(quantityMap, p, c.traded) EXCEPT ![p] = 0],
                     0)
        ELSE WalkEnd(Put(levels, p, c.orders),
                     SubtractAll(quantityMap, p, c.traded), 0))

AfterLevel(levels, quantityMap, ahead, price, side, p, c) ==
    WithLevel(c,
        IF c.orders = <<>>
        THEN \* remove the price level, go on with the next one
             WalkLevels(Erase(levels, p),
                        [SubtractAll(quantityMap, p, c.traded) EXCEPT ![p] = 0],
                        ahead \ {p}, c.quantity, price, side)
        ELSE \* ++price_iter
             WalkLevels(Put(levels, p, c.orders),
                        SubtractAll(quantityMap, p, c.traded),
                        ahead \ {p}, c.quantity, price, side))

\* faulty iteration: trades are reported at the incoming limit price
VisitLevelAtLimit(levels, quantityMap, ahead, quantity, price, side, p) ==
    IF ~priceMatch(side, p, price)
    THEN WalkEnd(levels, quantityMap, quantity)
    ELSE AfterLevel(levels, quantityMap, ahead, price, side, p,
                    ConsumeLevel(levels[p], quantity, ToPriceT(price)))

VisitLevel(levels, quantityMap, ahead, quantity, price, side, p) ==
    IF ~priceMatch(side, p, price)
    THEN WalkEnd(levels, quantityMap, quantity)
    ELSE AfterLevel(levels, quantityMap, ahead, price, side, p,
                    ConsumeLevel(levels[p], quantity, p))

\* faulty loop: the levels are visited worst price first
WalkLevelsWorstFirst(levels, quantityMap, ahead, quantity, price, side) ==
    IF ahead = {}
    THEN WalkEnd(levels, quantityMap, quantity)
    ELSE VisitLevel(levels, quantityMap, ahead, quantity, price, side,
                    FirstKey(ahead, side))

WalkLevels(levels, quantityMap, ahead, quantity, price, side) ==
    IF ahead = {}
    THEN WalkEnd(levels, quantityMap, quantity)
    ELSE VisitLevel(levels, quantityMap, ahead, quantity, price, side,
                    FirstKey(ahead, Opposite(side)))

\* faulty end of process_orders: an order comes to rest also when the walk
\* left nothing of its quantity
RestRemainderAlways(targetMap, oppositeMap, targetQuantityMap, targetPriceMap, targetOrderCount, instrument, key, w) ==
    [oppositeMap |-> Put(oppositeMap, instrument, w.levels),
     oppositeQuantityMap |-> w.quantityMap,
     targetMap |->
         Put(targetMap, instrument,
             Put(At(targetMap, instrument, EmptyMap), key,
                 Append(At(At(targetMap, instrument, EmptyMap), key, <<>>),
                        [orderId |-> targetOrderCount,
                         quantity |-> w.quantity]))),
     targetQuantityMap |->
         [targetQuantityMap EXCEPT ![key] = AddU32(@, w.quantity)],
     targetPriceMap |-> Put(targetPriceMap, targetOrderCount, key),
     targetOrderCount |-> targetOrderCount + 1,
     rests |-> TRUE,
     rested |-> w.quantity,
     trades |-> w.trades,
     best_price_changed |-> w.best_price_changed]

\* lines 124-135: what the walk w left of the quantity comes to rest at the
\* tail of the level at key, the limit price as PriceT
RestRemainder(targetMap, oppositeMap, targetQuantityMap, targetPriceMap, targetOrderCount, instrument, key, w) ==
    IF w.quantity > 0
    THEN [oppositeMap |-> Put(oppositeMap, instrument, w.levels),
          oppositeQuantityMap |-> w.quantityMap,
          targetMap |->
              Put(targetMap, instrument,
                  Put(At(targetMap, instrument, EmptyMap), key,
                      Append(At(At(targetMap, instrument, EmptyMap), key,
                                <<>>),
                             [orderId |-> targetOrderCount,
                              quantity |-> w.quantity]))),
          targetQuantityMap |->
              [targetQuantityMap EXCEPT ![key] = AddU32(@, w.quantity)],
          targetPriceMap |-> Put(targetPriceMap, targetOrderCount, key),
          targetOrderCount |-> targetOrderCount + 1,
          rests |-> TRUE,
          rested |-> w.quantity,
          trades |-> w.trades,
          best_price_changed |-> w.best_price_changed]
    ELSE [oppositeMap |-> Put(oppositeMap, instrument, w.levels),
          oppositeQuantityMap |-> w.quantityMap,
          targetMap |-> targetMap,
          targetQuantityMap |-> targetQuantityMap,
          targetPriceMap |-> targetPriceMap,
          targetOrderCount |-> targetOrderCount,
          rests |-> FALSE,
          rested |-> 0,
          trades |-> w.trades,
          best_price_changed |-> w.best_price_changed]

\* the lambda process_orders; oppositeMap[instrument] creates the instrument
process_orders(targetMap, oppositeMap, targetQuantityMap, oppositeQuantityMap, targetPriceMap, targetOrderCount, instrument, side, price, quantity) ==
    RestRemainder(targetMap, oppositeMap, targetQuantityMap, targetPriceMap,
                  targetOrderCount, instrument, ToPriceT(price),
                  WalkLevels(At(oppositeMap, instrument, EmptyMap),
                             oppositeQuantityMap,
                             DOMAIN At(oppositeMap, instrument, EmptyMap),
                             quantity, price, side))

\* the value AddOrder returns
AddOrderReturn == 0

\* the values begin()->first may yield: the first key of the side, or any
\* of EmptyBeginValues when it has no level
BeginReads(levelMap, instrument, bookSide) ==
    IF DOMAIN At(levelMap, instrument, EmptyMap) = {} THEN EmptyBeginValues
    ELSE {FirstKey(DOMAIN At(levelMap, instrument, EmptyMap), bookSide)}

\* lines 147-153: the two best prices and the BestPriceChanged call.
\* m_bidMap[instrument] and m_askMap[instrument] create the instrument;
\* m_xQuantityMap[price] reads the total of the level
BestPriceChangedCall(bidMap, askMap, bidQuantityMap, askQuantityMap, instrument, best_bid_price, best_ask_price) ==
    [bidMap |-> Put(bidMap, instrument, At(bidMap, instrument, EmptyMap)),
     askMap |-> Put(askMap, instrument, At(askMap, instrument, EmptyMap)),
     event |-> [bidPrice |-> ToInt64(best_bid_price),
                bidTotalQuantity |-> bidQuantityMap[best_bid_price],
                askPrice |-> ToInt64(best_ask_price),
                askTotalQuantity |-> askQuantityMap[best_ask_price]],
     emptyRead |-> \/ DOMAIN At(bidMap, instrument, EmptyMap) = {}
                   \/ DOMAIN At(askMap, instrument, EmptyMap) = {}]

\* the engine after process_orders, by side of the book
BySide(side, r) ==
    IF side = "BUY"
    THEN [bidMap |-> r.targetMap, askMap |-> r.oppositeMap,
          bidQuantityMap |-> r.targetQuantityMap,
          askQuantityMap |-> r.oppositeQuantityMap,
          bidPriceMap |-> r.targetPriceMap, askPriceMap |-> m_askPriceMap,
          bidOrderCount |-> r.targetOrderCount,
          askOrderCount |-> m_askOrderCount]
    ELSE [bidMap |-> r.oppositeMap, askMap |-> r.targetMap,
          bidQuantityMap |-> r.oppositeQuantityMap,
          askQuantityMap |-> r.targetQuantityMap,
          bidPriceMap |-> m_bidPriceMap, askPriceMap |-> r.targetPriceMap,
          bidOrderCount |-> m_bidOrderCount,
          askOrderCount |-> r.targetOrderCount]

AddOrder(instrument, side, price, quantity) ==
    \E r \in {process_orders(
                IF side = "BUY" THEN m_bidMap ELSE m_askMap,
                IF side = "BUY" THEN m_askMap ELSE m_bidMap,
                IF side = "BUY" THEN m_bidQuantityMap ELSE m_askQuantityMap,
                IF side = "BUY" THEN m_askQuantityMap ELSE m_bidQuantityMap,
                IF side = "BUY" THEN m_bidPriceMap ELSE m_askPriceMap,
                IF side = "BUY" THEN m_bidOrderCount ELSE m_askOrderCount,
                instrument, side, price, quantity)} :
    \E e \in {BySide(side, r)} :
      /\ e.bidOrderCount + e.askOrderCount <= MaxOrders
      /\ \E best_bid_price \in BeginReads(e.bidMap, instrument, "BUY"),
            best_ask_price \in BeginReads(e.askMap, instrument, "SELL") :
         \E b \in {BestPriceChangedCall(e.bidMap, e.askMap, e.bidQuantityMap,
                                        e.askQuantityMap, instrument,
                                        best_bid_price, best_ask_price)} :
         \E emits \in {r.best_price_changed \/ ~r.best_price_changed} :
           /\ m_bidMap' = (IF emits THEN b.bidMap ELSE e.bidMap)
           /\ m_askMap' = (IF emits THEN b.askMap ELSE e.askMap)
           /\ m_bidQuantityMap' = e.bidQuantityMap
           /\ m_askQuantityMap' = e.askQuantityMap
           /\ m_bidPriceMap' = e.bidPriceMap
           /\ m_askPriceMap' = e.askPriceMap
           /\ m_bidOrderCount' = e.bidOrderCount
           /\ m_askOrderCount' = e.askOrderCount
           /\ last' = [op |-> "AddOrder", instrument |-> instrument,
                       side |-> side, price |-> price,
                       quantity |-> quantity, orderId |-> 0, ok |-> TRUE,
                       value |-> AddOrderReturn, error |-> "",
                       removed |-> FALSE, wasResting |-> FALSE,
                       trades |-> r.trades,
                       bpc |-> IF emits THEN <<b.event>> ELSE <<>>,
                       emptyRead |-> emits /\ b.emptyRead]
           /\ streak' = NoStreak
           /\ issued' =
                 (IF r.rests
                  THEN [issued EXCEPT ![side] =
                          Put(@, r.targetOrderCount - 1,
                              [returned |-> AddOrderReturn,
                               quantity |-> r.rested])]
                  ELSE issued)
           /\ returned' = [returned EXCEPT ![side] = @ \cup {AddOrderReturn}]
           /\ UNCHANGED running

\* ----------------------------------------------------------- RemoveOrder
\* the orders of a deque without the one at position k
EraseAt(orders, k) ==
    SubSeq(orders, 1, k - 1) \o SubSeq(orders, k + 1, Len(orders))

\* faulty remove_order: price_level is a copy of the deque, so the erase is
\* lost
remove_order_on_copy(targetMap, targetPriceMap, targetQuantityMap, instrument, orderId) ==
    IF ~Count(targetMap, instrument) \/ ~Count(targetPriceMap, orderId)
    THEN [result |-> FALSE, targetMap |-> targetMap,
          targetQuantityMap |-> targetQuantityMap]
    ELSE LET price == targetPriceMap[orderId]
             levels == targetMap[instrument]
             price_level == At(levels, price, <<>>)
             hits == {k \in 1 .. Len(price_level) :
                         price_level[k].orderId = orderId}
         IN [result |-> hits # {},
             targetMap |-> Put(targetMap, instrument,
                               Put(levels, price, price_level)),
             targetQuantityMap |->
                 IF hits = {} THEN targetQuantityMap
                 ELSE [targetQuantityMap EXCEPT ![price] =
                         SubU32(@, price_level[Min(hits)].quantity)]]

\* faulty remove_order: the return after the search loop is true
remove_order_true_at_end(targetMap, targetPriceMap, targetQuantityMap, instrument, orderId) ==
    IF ~Count(targetMap, instrument) \/ ~Count(targetPriceMap, orderId)
    THEN [result |-> FALSE, targetMap |-> targetMap,
          targetQuantityMap |-> targetQuantityMap]
    ELSE LET price == targetPriceMap[orderId]
             levels == targetMap[instrument]
             price_level == At(levels, price, <<>>)
             hits == {k \in 1 .. Len(price_level) :
                         price_level[k].orderId = orderId}
         IN IF hits # {}
            THEN LET k == Min(hits) IN
                 [result |-> TRUE,
                  targetMap |-> Put(targetMap, instrument,
                                    Put(levels, price,
                                        EraseAt(price_level, k))),
                  targetQuantityMap |->
                      [targetQuantityMap EXCEPT ![price] =
                          SubU32(@, price_level[k].quantity)]]
            ELSE [result |-> TRUE,
                  targetMap |-> Put(targetMap, instrument,
                                    Put(levels, price, price_level)),
                  targetQuantityMap |-> targetQuantityMap]

\* faulty remove_order: the order erased is the head of the level, not the
\* order found
remove_order_pop_front(targetMap, targetPriceMap, targetQuantityMap, instrument, orderId) ==
    IF ~Count(targetMap, instrument) \/ ~Count(targetPriceMap, orderId)
    THEN [result |-> FALSE, targetMap |-> targetMap,
          targetQuantityMap |-> targetQuantityMap]
    ELSE LET price == targetPriceMap[orderId]
             levels == targetMap[instrument]
             price_level == At(levels, price, <<>>)
             hits == {k \in 1 .. Len(price_level) :
                         price_level[k].orderId = orderId}
         IN IF hits # {}
            THEN [result |-> TRUE,
                  targetMap |-> Put(targetMap, instrument,
                                    Put(levels, price,
                                        EraseAt(price_level, 1))),
                  targetQuantityMap |->
                      [targetQuantityMap EXCEPT ![price] =
                          SubU32(@, price_level[1].quantity)]]
            ELSE [result |-> FALSE,
                  targetMap |-> Put(targetMap, instrument,
                                    Put(levels, price, price_level)),
                  targetQuantityMap |-> targetQuantityMap]

\* the lambda remove_order
remove_order(targetMap, targetPriceMap, targetQuantityMap, instrument, orderId) ==
    IF ~Count(targetMap, instrument) \/ ~Count(targetPriceMap, orderId)
    THEN [result |-> FALSE, targetMap |-> targetMap,
          targetQuantityMap |-> targetQuantityMap]
    ELSE LET price == targetPriceMap[orderId]
             levels == targetMap[instrument]
             price_level == At(levels, price, <<>>)
             hits == {k \in 1 .. Len(price_level) :
                         price_level[k].orderId = orderId}
         IN IF hits # {}
            THEN LET k == Min(hits) IN
                 [result |-> TRUE,
                  targetMap |-> Put(targetMap, instrument,
                                    Put(levels, price,
                                        EraseAt(price_level, k))),
                  targetQuantityMap |->
                      [targetQuantityMap EXCEPT ![price] =
                          SubU32(@, price_level[k].quantity)]]
            ELSE [result |-> FALSE,
                  targetMap |-> Put(targetMap, instrument,
                                    Put(levels, price, price_level)),
                  targetQuantityMap |-> targetQuantityMap]

\* the orders resting in one instrument of a side's book, as a set of
\* [price, pos, orderId, quantity]
RestingIn(book, instrument) ==
    LET levels == At(book, instrument, EmptyMap) IN
    UNION {{[price |-> p, pos |-> k, orderId |-> levels[p][k].orderId,
             quantity |-> levels[p][k].quantity] : k \in DOMAIN levels[p]}
           : p \in DOMAIN levels}
BookOf(side) == IF side = "BUY" THEN m_bidMap ELSE m_askMap
Resting(instrument, side) == RestingIn(BookOf(side), instrument)
IsResting(instrument, side, orderId) ==
    \E o \in Resting(instrument, side) : o.orderId = orderId

RemoveOrder(instrument, side, orderId) ==
    \E r \in {remove_order(
                IF side = "BUY" THEN m_bidMap ELSE m_askMap,
                IF side = "BUY" THEN m_bidPriceMap ELSE m_askPriceMap,
                IF side = "BUY" THEN m_bidQuantityMap ELSE m_askQuantityMap,
                instrument, orderId)} :
    \E was \in {IsResting(instrument, side, orderId)} :
    \E again \in {/\ last.op = "RemoveOrder"
                  /\ last.instrument = instrument
                  /\ last.side = side
                  /\ last.orderId = orderId} :
       /\ m_bidMap' = (IF side = "BUY" THEN r.targetMap ELSE m_bidMap)
       /\ m_askMap' = (IF side = "BUY" THEN m_askMap ELSE r.targetMap)
       /\ m_bidQuantityMap' =
             (IF side = "BUY" THEN r.targetQuantityMap ELSE m_bidQuantityMap)
       /\ m_askQuantityMap' =
             (IF side = "BUY" THEN m_askQuantityMap ELSE r.targetQuantityMap)
       /\ UNCHANGED <<m_bidPriceMap, m_askPriceMap, m_bidOrderCount,
                      m_askOrderCount, issued, returned, running>>
       /\ last' = [op |-> "RemoveOrder", instrument |-> instrument,
                   side |-> side, price |-> 0, quantity |-> 0,
                   orderId |-> orderId, ok |-> TRUE, value |-> 0,
                   error |-> "",
                   removed |-> r.result, wasResting |-> was,
                   trades |-> <<>>, bpc |-> <<>>, emptyRead |-> FALSE]
       /\ streak' =
             (IF ~again
              THEN [resting |-> was, results |-> <<r.result>>]
              ELSE IF Len(streak.results) < MaxStreak
              THEN [streak EXCEPT !.results = Append(@, r.result)]
              ELSE [streak EXCEPT !.results =
                      <<@[1]>> \o SubSeq(@, 3, MaxStreak) \o <<r.result>>])

Next ==
    \/ \E o \in Orders, s \in Side : AddOrder("X", s, o[1], o[2])
    \/ \E s \in Side, id \in OrderIdInputs : RemoveOrder("X", s, id)

Spec == Init /\ [][Next]_vars

\* two instruments, valid orders of quantity 1
NextMulti ==
    \/ \E i \in Instruments, s \in Side, p \in 1 .. MaxPrice :
          AddOrder(i, s, p, 1)
    \/ \E i \in Instruments, s \in Side, id \in OrderIdInputs :
          RemoveOrder(i, s, id)

SpecMulti == Init /\ [][NextMulti]_vars

\* ------------------------------------------- AddOrder calls in parallel
\* Two threads, one per instrument, each inside AddOrder one statement at a
\* time; the calls on one instrument follow one another.  The code takes
\* no lock and its counters are plain integers, so the statements of the
\* two calls interleave freely.  The callbacks' values are not recorded.

\* lines 86-123: the walk over the opposite side, up to if (quantity > 0)
EnterAddOrder(instrument, side, price, quantity) ==
    /\ running[instrument].pc = "idle"
    /\ m_bidOrderCount + m_askOrderCount < MaxOrders
    /\ \E w \in {WalkLevels(
                   At(IF side = "BUY" THEN m_askMap ELSE m_bidMap,
                      instrument, EmptyMap),
                   IF side = "BUY" THEN m_askQuantityMap ELSE m_bidQuantityMap,
                   DOMAIN At(IF side = "BUY" THEN m_askMap ELSE m_bidMap,
                             instrument, EmptyMap),
                   quantity, price, side)} :
          /\ m_askMap' = (IF side = "BUY"
                          THEN Put(m_askMap, instrument, w.levels)
                          ELSE m_askMap)
          /\ m_bidMap' = (IF side = "BUY"
                          THEN m_bidMap
                          ELSE Put(m_bidMap, instrument, w.levels))
          /\ m_askQuantityMap' =
                (IF side = "BUY" THEN w.quantityMap ELSE m_askQuantityMap)
          /\ m_bidQuantityMap' =
                (IF side = "BUY" THEN m_bidQuantityMap ELSE w.quantityMap)
          /\ running' = [running EXCEPT ![instrument] =
                           [pc |-> IF w.quantity > 0 THEN "index"
                                                     ELSE "notify",
                            side |-> side, price |-> price,
                            quantity |-> w.quantity, id |-> 0]]
    /\ UNCHANGED <<m_bidPriceMap, m_askPriceMap, m_bidOrderCount,
                   m_askOrderCount, last, streak, issued, returned>>

\* lines 125-130: m_xPriceMap[m_xOrderCount] = price
StoreIndex(instrument) ==
    /\ running[instrument].pc = "index"
    /\ m_bidPriceMap' =
          (IF running[instrument].side = "BUY"
           THEN Put(m_bidPriceMap, m_bidOrderCount,
                    ToPriceT(running[instrument].price))
           ELSE m_bidPriceMap)
    /\ m_askPriceMap' =
          (IF running[instrument].side = "BUY"
           THEN m_askPriceMap
           ELSE Put(m_askPriceMap, m_askOrderCount,
                    ToPriceT(running[instrument].price)))
    /\ running' = [running EXCEPT ![instrument].pc = "read"]
    /\ UNCHANGED <<m_bidMap, m_askMap, m_bidQuantityMap, m_askQuantityMap,
                   m_bidOrderCount, m_askOrderCount, last, streak, issued,
                   returned>>

\* line 132: m_xOrderCount++ reads the counter
ReadCount(instrument) ==
    /\ running[instrument].pc = "read"
    /\ running' = [running EXCEPT
                     ![instrument].pc = "push",
                     ![instrument].id =
                         IF running[instrument].side = "BUY"
                         THEN m_bidOrderCount ELSE m_askOrderCount]
    /\ UNCHANGED <<m_bidMap, m_askMap, m_bidPriceMap, m_askPriceMap,
                   m_bidQuantityMap, m_askQuantityMap, m_bidOrderCount,
                   m_askOrderCount, last, streak, issued, returned>>

\* targetMap[instrument][price] with one more order at its tail
PushedBack(targetMap, instrument, key, order) ==
    Put(targetMap, instrument,
        Put(At(targetMap, instrument, EmptyMap), key,
            Append(At(At(targetMap, instrument, EmptyMap), key, <<>>),
                   order)))

\* lines 131-133: m_xOrderCount++ writes the counter back, and the order of
\* the id read is pushed to the tail of its level
PushBack(instrument) ==
    /\ running[instrument].pc = "push"
    /\ m_bidOrderCount' = (IF running[instrument].side = "BUY"
                           THEN running[instrument].id + 1
                           ELSE m_bidOrderCount)
    /\ m_askOrderCount' = (IF running[instrument].side = "BUY"
                           THEN m_askOrderCount
                           ELSE running[instrument].id + 1)
    /\ m_bidMap' =
          (IF running[instrument].side = "BUY"
           THEN PushedBack(m_bidMap, instrument,
                           ToPriceT(running[instrument].price),
                           [orderId |-> running[instrument].id,
                            quantity |-> running[instrument].quantity])
           ELSE m_bidMap)
    /\ m_askMap' =
          (IF running[instrument].side = "BUY"
           THEN m_askMap
           ELSE PushedBack(m_askMap, instrument,
                           ToPriceT(running[instrument].price),
                           [orderId |-> running[instrument].id,
                            quantity |-> running[instrument].quantity]))
    /\ running' = [running EXCEPT ![instrument].pc = "total"]
    /\ UNCHANGED <<m_bidPriceMap, m_askPriceMap, m_bidQuantityMap,
                   m_askQuantityMap, last, streak, issued, returned>>

\* line 134: targetQuantityMap[price] += quantity
AddTotal(instrument) ==
    /\ running[instrument].pc = "total"
    /\ m_bidQuantityMap' =
          (IF running[instrument].side = "BUY"
           THEN [m_bidQuantityMap EXCEPT
                   ![ToPriceT(running[instrument].price)] =
                       AddU32(@, running[instrument].quantity)]
           ELSE m_bidQuantityMap)
    /\ m_askQuantityMap' =
          (IF running[instrument].side = "BUY"
           THEN m_askQuantityMap
           ELSE [m_askQuantityMap EXCEPT
                   ![ToPriceT(running[instrument].price)] =
                       AddU32(@, running[instrument].quantity)])
    /\ running' = [running EXCEPT ![instrument].pc = "notify"]
    /\ UNCHANGED <<m_bidMap, m_askMap, m_bidPriceMap, m_askPriceMap,
                   m_bidOrderCount, m_askOrderCount, last, streak, issued,
                   returned>>

\* lines 147-155: m_bidMap[instrument] and m_askMap[instrument] create the
\* instrument, BestPriceChanged is called and the call returns
LeaveAddOrder(instrument) ==
    /\ running[instrument].pc = "notify"
    /\ m_bidMap' = Put(m_bidMap, instrument, At(m_bidMap, instrument, EmptyMap))
    /\ m_askMap' = Put(m_askMap, instrument, At(m_askMap, instrument, EmptyMap))
    /\ running' = [running EXCEPT ![instrument] = Idle]
    /\ UNCHANGED <<m_bidPriceMap, m_askPriceMap, m_bidQuantityMap,
                   m_askQuantityMap, m_bidOrderCount, m_askOrderCount, last,
                   streak, issued, returned>>

NextParallel ==
    \/ \E i \in Instruments, s \in Side, p \in 1 .. MaxPrice :
          EnterAddOrder(i, s, p, 1)
    \/ \E i \in Instruments : StoreIndex(i)
    \/ \E i \in Instruments : ReadCount(i)
    \/ \E i \in Instruments : PushBack(i)
    \/ \E i \in Instruments : AddTotal(i)
    \/ \E i \in Instruments : LeaveAddOrder(i)

SpecParallel == Init /\ [][NextParallel]_vars

\* ------------------------------------------------------------ properties
SideBook(bidMap, askMap, side) == IF side = "BUY" THEN bidMap ELSE askMap
RECURSIVE SumQuantity(_)
SumQuantity(orders) ==
    IF orders = <<>> THEN 0
    ELSE Head(orders).quantity + SumQuantity(Tail(orders))

\* best price and total quantity of the orders resting on one side of an
\* instrument, <<0, 0>> when none rests
TopOfSide(book, instrument, bookSide) ==
    LET levels == At(book, instrument, EmptyMap)
        held == {p \in DOMAIN levels : levels[p] # <<>>}
    IN IF held = {} THEN <<0, 0>>
       ELSE LET best == FirstKey(held, bookSide)
            IN <<best, SumQuantity(levels[best])>>
TopOfBook(bidMap, askMap, instrument) ==
    <<TopOfSide(bidMap, instrument, "BUY"),
      TopOfSide(askMap, instrument, "SELL")>>

\* C1: no crossing.  In every reachable state, for every instrument with
\* orders resting on both sides, every resting bid's price is strictly below
\* every resting ask's price (prices as the book holds them, PriceT).
C1_NoCrossing ==
    \A i \in Instruments :
      \A b \in Resting(i, "BUY"), a \in Resting(i, "SELL") : b.price < a.price

\* C1 witness: bids and asks rest together after an AddOrder, and one of the
\* bids has been partially filled by an earlier match
C1_Witness ==
    /\ last.op = "AddOrder"
    /\ Resting(last.instrument, "SELL") # {}
    /\ \E b \in Resting(last.instrument, "BUY") :
          b.quantity < issued["BUY"][b.orderId].quantity

\* C2: every successful AddOrder returns an id that no earlier successful
\* AddOrder on the same side returned.
C2_FreshIdPerSide ==
    [][(last'.op = "AddOrder" /\ last'.ok)
          => last'.value \notin returned[last'.side]]_vars

\* C3: RemoveOrder(i, s, id) removes the resting remainder of every order
\* whose AddOrder(i, s, ..) returned id: it returns true and takes exactly
\* that order out of the book.
C3_ReturnedIdCancels ==
    [][last'.op = "RemoveOrder" =>
         \A o \in Resting(last'.instrument, last'.side) :
            issued[last'.side][o.orderId].returned = last'.orderId =>
               /\ last'.removed
               /\ {[price |-> x.price, orderId |-> x.orderId,
                    quantity |-> x.quantity] :
                      x \in RestingIn(SideBook(m_bidMap', m_askMap',
                                               last'.side),
                                      last'.instrument)}
                  = {[price |-> x.price, orderId |-> x.orderId,
                      quantity |-> x.quantity] :
                        x \in Resting(last'.instrument, last'.side) \ {o}}
      ]_vars

\* C4: AddOrder with price <= 0 fails with InvalidPrice, emits no callback
\* and leaves the books, the order index and the id counters unchanged.
C4_InvalidPriceRejected ==
    [][(last'.op = "AddOrder" /\ last'.price <= 0) =>
          /\ ~last'.ok
          /\ last'.error = "InvalidPrice"
          /\ last'.trades = <<>>
          /\ last'.bpc = <<>>
          /\ UNCHANGED <<m_bidMap, m_askMap, m_bidPriceMap, m_askPriceMap,
                         m_bidOrderCount, m_askOrderCount>>
      ]_vars

\* C5: AddOrder with quantity 0 fails with InvalidQuantity, emits no
\* callback and leaves the books (levels included), the order index and the
\* id counters unchanged.
C5_InvalidQuantityRejected ==
    [][(last'.op = "AddOrder" /\ last'.quantity = 0) =>
          /\ ~last'.ok
          /\ last'.error = "InvalidQuantity"
          /\ last'.trades = <<>>
          /\ last'.bpc = <<>>
          /\ UNCHANGED <<m_bidMap, m_askMap, m_bidPriceMap, m_askPriceMap,
                         m_bidOrderCount, m_askOrderCount>>
      ]_vars

\* C6: idempotent cancellation.  In a run of consecutive identical calls
\* RemoveOrder(i, s, id) that starts with the order resting on side s of
\* instrument i, the first call returns true and every later one false.
C6_IdempotentCancel ==
    (streak.resting /\ streak.results # <<>>) =>
        /\ streak.results[1]
        /\ \A k \in 2 .. Len(streak.results) : ~streak.results[k]

\* C6 witness: three consecutive identical calls on a resting order
C6_Witness ==
    /\ streak.resting
    /\ Len(streak.results) = 3

\* C7: RemoveOrder(i, s, id) returns false whenever no order with that id
\* rests on side s of instrument i when it is called (unknown instrument,
\* id never allocated, order filled or cancelled, order on another
\* instrument or on the other side).
C7_RemoveAbsentIsFalse ==
    (last.op = "RemoveOrder" /\ ~last.wasResting) => ~last.removed

\* C7 witness: the id named rests on the same side of another instrument,
\* and the instrument named is known to that side's book
C7_Witness ==
    /\ last.op = "RemoveOrder"
    /\ ~last.wasResting
    /\ Count(BookOf(last.side), last.instrument)
    /\ \E j \in Instruments \ {last.instrument} :
          IsResting(j, last.side, last.orderId)

\* C8: FIFO.  In every level the orders queue in arrival order (ids
\* ascending) and only the head of the queue can hold less than the quantity
\* it came to rest with.
C8_Fifo ==
    \A s \in Side, i \in Instruments :
      \A x \in Resting(i, s), y \in Resting(i, s) :
        (x.price = y.price /\ x.pos < y.pos) =>
            /\ x.orderId < y.orderId
            /\ y.quantity = issued[s][y.orderId].quantity

\* C8 witness: a partially filled head with a later order queued behind it
C8_Witness ==
    \E s \in Side, i \in Instruments :
      \E x \in Resting(i, s), y \in Resting(i, s) :
        /\ x.price = y.price
        /\ x.pos = 1
        /\ y.pos = 2
        /\ x.quantity < issued[s][x.orderId].quantity

\* C9: every OrderTraded of an AddOrder names an order that rested on the
\* opposite side of the instrument before the call, carries the price of the
\* level that order rested at, and a quantity that order held.
C9_TradeAtRestingPrice ==
    [][last'.op = "AddOrder" =>
         \A k \in DOMAIN last'.trades :
            \E o \in Resting(last'.instrument, Opposite(last'.side)) :
               /\ o.orderId = last'.trades[k].orderId
               /\ last'.trades[k].price = ToInt64(o.price)
               /\ last'.trades[k].quantity \in 1 .. o.quantity
      ]_vars

\* C9 witness: a trade between two valid prices, at a price other than the
\* incoming limit price
C9_Witness ==
    /\ last.op = "AddOrder"
    /\ last.price > 0
    /\ \E k \in DOMAIN last.trades :
          /\ last.trades[k].price > 0
          /\ last.trades[k].price # last.price

\* C10: a call emits at most one BestPriceChanged, and none unless the best
\* price or the total quantity at the best price of the bid or the ask side
\* of its instrument changed.
C10_BestPriceChangedOnlyOnChange ==
    [][last'.op \in {"AddOrder", "RemoveOrder"} =>
          /\ Len(last'.bpc) <= 1
          /\ last'.bpc # <<>> =>
                TopOfBook(m_bidMap', m_askMap', last'.instrument)
                   # TopOfBook(m_bidMap, m_askMap, last'.instrument)
      ]_vars

\* the BestPriceChanged values that describe the top of the book of an
\* instrument: the best price and the total quantity resting at it, 0 and 0
\* for a side where nothing rests
TopEvent(bidMap, askMap, instrument) ==
    [bidPrice |-> ToInt64(TopOfSide(bidMap, instrument, "BUY")[1]),
     bidTotalQuantity |-> TopOfSide(bidMap, instrument, "BUY")[2],
     askPrice |-> ToInt64(TopOfSide(askMap, instrument, "SELL")[1]),
     askTotalQuantity |-> TopOfSide(askMap, instrument, "SELL")[2]]

\* C11: an AddOrder that changes the best price or the total quantity at
\* the best price of a side of its instrument emits exactly one
\* BestPriceChanged, carrying the best bid price and quantity and the best
\* ask price and quantity the instrument has after the call.
C11_BestPriceChangedAfterAdd ==
    [][(/\ last'.op = "AddOrder"
        /\ TopOfBook(m_bidMap', m_askMap', last'.instrument)
              # TopOfBook(m_bidMap, m_askMap, last'.instrument))
          => last'.bpc = <<TopEvent(m_bidMap', m_askMap', last'.instrument)>>
      ]_vars

\* C12: a RemoveOrder that returns true and changes the best price or the
\* total quantity at the best price of its side emits a BestPriceChanged
\* carrying the top of the book the instrument has after the call.
C12_BestPriceChangedAfterRemove ==
    [][(/\ last'.op = "RemoveOrder"
        /\ last'.removed
        /\ TopOfBook(m_bidMap', m_askMap', last'.instrument)
              # TopOfBook(m_bidMap, m_askMap, last'.instrument))
          => last'.bpc = <<TopEvent(m_bidMap', m_askMap', last'.instrument)>>
      ]_vars

\* C13: empty-side sentinel.  After an AddOrder that emitted
\* BestPriceChanged, no first level of an empty side was read, and a side of
\* the instrument where no order rests was reported as price 0, quantity 0.
C13_EmptySideSentinel ==
    (last.op = "AddOrder" /\ last.bpc # <<>>) =>
        /\ ~last.emptyRead
        /\ Resting(last.instrument, "BUY") = {} =>
              /\ last.bpc[1].bidPrice = 0
              /\ last.bpc[1].bidTotalQuantity = 0
        /\ Resting(last.instrument, "SELL") = {} =>
              /\ last.bpc[1].askPrice = 0
              /\ last.bpc[1].askTotalQuantity = 0

\* total quantity of a set of resting orders
RECURSIVE SumResting(_)
SumResting(S) ==
    IF S = {} THEN 0
    ELSE LET o == CHOOSE x \in S : TRUE
         IN o.quantity + SumResting(S \ {o})

\* the orders of the opposite side an order of this side and limit price
\* can trade with, prices compared as the book compares them
Marketable(instrument, side, price) ==
    {o \in Resting(instrument, Opposite(side)) :
        priceMatch(side, o.price, price)}

\* C14: an AddOrder with price > 0 and quantity > 0 trades, summed over its
\* OrderTraded calls, min(quantity, total quantity of the opposite-side
\* orders of the instrument resting at marketable prices); what is left, if
\* positive, rests as exactly one new order at the limit price, at the tail
\* of that level, and the other orders of its side stay as they were; if
\* nothing is left no order comes to rest.
C14_FillThenRest ==
    [][(last'.op = "AddOrder" /\ last'.price > 0 /\ last'.quantity > 0) =>
         LET before == Resting(last'.instrument, last'.side)
             after == RestingIn(SideBook(m_bidMap', m_askMap', last'.side),
                                last'.instrument)
             filled == SumQuantity(last'.trades)
         IN /\ filled = Min({last'.quantity,
                             SumResting(Marketable(last'.instrument,
                                                   last'.side,
                                                   last'.price))})
            /\ before \subseteq after
            /\ IF last'.quantity - filled > 0
               THEN \E n \in after \ before :
                       /\ after \ before = {n}
                       /\ n.price = ToPriceT(last'.price)
                       /\ n.quantity = last'.quantity - filled
                       /\ n.pos = 1 + Cardinality({o \in before :
                                                     o.price = n.price})
               ELSE after = before
      ]_vars

\* C14 witness: an order traded with a resting order and what it had left
\* came to rest at its limit price
C14_Witness ==
    /\ last.op = "AddOrder"
    /\ last.price > 0
    /\ last.trades # <<>>
    /\ SumQuantity(last.trades) < last.quantity
    /\ \E n \in Resting(last.instrument, last.side) :
          /\ n.price = ToPriceT(last.price)
          /\ n.quantity = last.quantity - SumQuantity(last.trades)

\* C15: price priority.  The trades of one AddOrder go from the best price
\* of the opposite side on (lowest ask first for a BUY, highest bid first
\* for a SELL), their prices never improving, and an order is filled only
\* after every order resting at a strictly better price on its side of the
\* instrument has been filled completely by earlier trades of the call.
\* Prices are compared as the book holds them.
C15_PricePriority ==
    [][last'.op = "AddOrder" =>
         LET better(x, y) == IF last'.side = "BUY" THEN x < y ELSE x > y
             opposite == Resting(last'.instrument, Opposite(last'.side))
             after == RestingIn(SideBook(m_bidMap', m_askMap',
                                         Opposite(last'.side)),
                                last'.instrument)
         IN \A k \in DOMAIN last'.trades :
              /\ \A j \in 1 .. (k - 1) :
                    ~better(ToPriceT(last'.trades[k].price),
                            ToPriceT(last'.trades[j].price))
              /\ \A b \in opposite :
                    better(b.price, ToPriceT(last'.trades[k].price)) =>
                       /\ \E j \in 1 .. (k - 1) :
                             last'.trades[j].orderId = b.orderId
                       /\ \A o \in after : o.orderId # b.orderId
      ]_vars

\* C15 witness: one call filled orders at two prices, both valid
C15_Witness ==
    /\ last.op = "AddOrder"
    /\ \E j \in DOMAIN last.trades, k \in DOMAIN last.trades :
          /\ j < k
          /\ last.trades[j].price > 0
          /\ last.trades[k].price > 0
          /\ last.trades[j].price # last.trades[k].price

QuantityMapOf(side) ==
    IF side = "BUY" THEN m_bidQuantityMap ELSE m_askQuantityMap
\* the order index of a side
PriceMapOf(side) == IF side = "BUY" THEN m_bidPriceMap ELSE m_askPriceMap

\* C17: quantity conservation.  For every instrument, side and price level
\* of the book, the total the side's quantity map holds for the level's
\* price is the sum of the quantities of the orders resting in the level,
\* also when several instruments hold orders at the same price.
C17_QuantityConservation ==
    \A s \in Side, i \in Instruments :
      \A p \in DOMAIN At(BookOf(s), i, EmptyMap) :
         QuantityMapOf(s)[p] = SumQuantity(BookOf(s)[i][p])

\* C18: no empty price levels.  Every price level of every side book of
\* every instrument holds at least one resting order.
C18_NoEmptyLevels ==
    \A s \in Side, i \in Instruments :
      \A p \in DOMAIN At(BookOf(s), i, EmptyMap) : BookOf(s)[i][p] # <<>>

\* C19: order-index consistency.  A side's order index holds an entry for
\* an id exactly when an order of that id rests on that side, and the entry
\* is the price of the level the order rests in.
C19_IndexConsistency ==
    \A s \in Side :
      /\ \A id \in DOMAIN PriceMapOf(s) :
            \E i \in Instruments : IsResting(i, s, id)
      /\ \A i \in Instruments : \A o \in Resting(i, s) :
            /\ Count(PriceMapOf(s), o.orderId)
            /\ PriceMapOf(s)[o.orderId] = o.price

\* C20: every resting order holds a quantity greater than 0.
C20_RestingQuantityPositive ==
    \A s \in Side, i \in Instruments :
      \A o \in Resting(i, s) : o.quantity > 0

\* C20 witness: the last AddOrder filled one order of the book completely
\* and the next in part, and the order filled in part still rests
C20_Witness ==
    /\ last.op = "AddOrder"
    /\ Len(last.trades) = 2
    /\ \A x \in Resting(last.instrument, Opposite(last.side)) :
          x.orderId # last.trades[1].orderId
    /\ \E x \in Resting(last.instrument, Opposite(last.side)) :
          x.orderId = last.trades[2].orderId

\* what BestPriceChanged reports for one side of an instrument: the first
\* key of the side's levels and the side's quantity-map entry for it (lines
\* 148-152); <<>> when the side has no level
ReportedSide(levelMap, quantityMap, instrument, bookSide) ==
    IF DOMAIN At(levelMap, instrument, EmptyMap) = {} THEN <<>>
    ELSE <<FirstKey(DOMAIN At(levelMap, instrument, EmptyMap), bookSide),
           quantityMap[FirstKey(DOMAIN At(levelMap, instrument, EmptyMap),
                                bookSide)]>>

\* C21: instrument independence.  A call on one instrument leaves every
\* other instrument as it was: its price levels and the orders queued in
\* them on both sides, and the best price and total quantity that would be
\* reported for each of its sides.
C21_InstrumentIndependence ==
    [][last'.op \in {"AddOrder", "RemoveOrder"} =>
         \A j \in Instruments \ {last'.instrument} :
            /\ Count(m_bidMap', j) = Count(m_bidMap, j)
            /\ Count(m_askMap', j) = Count(m_askMap, j)
            /\ At(m_bidMap', j, EmptyMap) = At(m_bidMap, j, EmptyMap)
            /\ At(m_askMap', j, EmptyMap) = At(m_askMap, j, EmptyMap)
            /\ ReportedSide(m_bidMap', m_bidQuantityMap', j, "BUY")
                  = ReportedSide(m_bidMap, m_bidQuantityMap, j, "BUY")
            /\ ReportedSide(m_askMap', m_askQuantityMap', j, "SELL")
                  = ReportedSide(m_askMap, m_askQuantityMap, j, "SELL")
      ]_vars

\* C22: AddOrder calls on two instruments running in parallel, the calls on
\* one instrument one after another.  Whenever no call is running, no two
\* orders resting on a side carry the same id, and the side's order index
\* holds, for every resting order, the price of the level it rests in.
C22_ParallelIdsAndIndex ==
    (\A i \in Instruments : running[i].pc = "idle") =>
       \A s \in Side :
         \A i \in Instruments, j \in Instruments :
           \A o \in Resting(i, s), q \in Resting(j, s) :
              /\ o.orderId = q.orderId => (i = j /\ o = q)
              /\ Count(PriceMapOf(s), o.orderId)
              /\ PriceMapOf(s)[o.orderId] = o.price

\* C23: a RemoveOrder that returns false changes nothing: the books of
\* every instrument, with the instruments and the price levels they hold,
\* the order index and the id counters are as before the call.
C23_FailedRemoveChangesNothing ==
    [][(last'.op = "RemoveOrder" /\ ~last'.removed) =>
          UNCHANGED <<m_bidMap, m_askMap, m_bidPriceMap, m_askPriceMap,
                      m_bidOrderCount, m_askOrderCount>>
      ]_vars

\* the orders of a level other than the one of the given id, in queue order
RECURSIVE Without(_, _)
Without(orders, orderId) ==
    IF orders = <<>> THEN <<>>
    ELSE IF Head(orders).orderId = orderId THEN Without(Tail(orders), orderId)
    ELSE <<Head(orders)>> \o Without(Tail(orders), orderId)

\* C24: a RemoveOrder that returns true takes exactly the order named out
\* of the book: one order less rests on the side of the instrument named,
\* every level of it queues the orders it queued before, but the one named,
\* in the same order with the same quantities, every other side and
\* instrument holds what it held, no OrderTraded is emitted and the id
\* counters are unchanged.
C24_RemoveExactlyOne ==
    [][(last'.op = "RemoveOrder" /\ last'.removed) =>
          /\ last'.trades = <<>>
          /\ UNCHANGED <<m_bidOrderCount, m_askOrderCount>>
          /\ Cardinality(Resting(last'.instrument, last'.side))
                = 1 + Cardinality(RestingIn(SideBook(m_bidMap', m_askMap',
                                                     last'.side),
                                            last'.instrument))
          /\ \A i \in Instruments, s \in Side, p \in PriceT :
                At(At(SideBook(m_bidMap', m_askMap', s), i, EmptyMap), p, <<>>)
                   = IF i = last'.instrument /\ s = last'.side
                     THEN Without(At(At(BookOf(s), i, EmptyMap), p, <<>>),
                                  last'.orderId)
                     ELSE At(At(BookOf(s), i, EmptyMap), p, <<>>)
      ]_vars

\* C24 witness: the order removed was queued behind another order of its
\* level, which still rests there
C24_Witness ==
    /\ last.op = "RemoveOrder"
    /\ last.removed
    /\ \E o \in Resting(last.instrument, last.side) :
          /\ o.price = PriceMapOf(last.side)[last.orderId]
          /\ o.orderId < last.orderId

====
